---- MODULE Spec2Model ----
(***************************************************************************)
(* A model of lib/ansible/modules/web_infrastructure/ansible_tower/        *)
(* tower_schedule.py: the two string routines parse_datetime_string and    *)
(* build_rrule, the two parameter reshaping routines update_fields and     *)
(* update_resources, and the single pass of main against the remote        *)
(* tower_cli client.                                                       *)
(*                                                                         *)
(* Python values are tagged tuples, so that values of different Python     *)
(* types can be compared: None is <<"None">>, an int n is <<"int", n>>,     *)
(* a bool b is <<"bool", b>>, a str is <<"str", s>> and a dict is           *)
(* <<"dict", pairs>>.  The text s of a str is a sequence of pieces; the    *)
(* texts that are parsed or formatted character by character (the start    *)
(* timestamp, the rrule) have one piece per character.                     *)
(***************************************************************************)
EXTENDS Integers, Sequences, FiniteSets, TLC

VARIABLES module_params, check_mode, pc, state, frequency, frequency_unit,
          start, json_output, params, remaining, dtstart, excinfo, calls,
          result, output, call, ret

vars == <<module_params, check_mode, pc, state, frequency, frequency_unit,
          start, json_output, params, remaining, dtstart, excinfo, calls,
          result, output, call, ret>>

main_vars == <<module_params, check_mode, pc, state, frequency, frequency_unit,
               start, json_output, params, remaining, dtstart, excinfo, calls,
               result, output>>

(***************************************************************************)
(* Bounds of the model.                                                    *)
(***************************************************************************)
\* frequency is None or drawn from -1..MaxFrequency in main
MaxFrequency == 1
\* identifiers returned by the remote service are drawn from 1..MaxId
MaxId == 2
\* interval counts handed to build_rrule alone are drawn from -MaxCount..MaxCount
MaxCount == 12

(***************************************************************************)
(* Python values.                                                          *)
(***************************************************************************)
NoneV == <<"None">>
PyStr(s) == <<"str", s>>
PyInt(n) == <<"int", n>>
PyBool(b) == <<"bool", b>>
PyDict(pairs) == <<"dict", pairs>>
Unset == <<"unset">>

\* Python truth value of a parameter: None and '' are false
Truthy(v) == v # NoneV /\ v # PyStr(<<>>)

\* dict operations
Pop(d, k) == [x \in DOMAIN d \ {k} |-> d[x]]
Put(d, k, v) == [x \in DOMAIN d \cup {k} |-> IF x = k THEN v ELSE d[x]]

(***************************************************************************)
(* Characters and decimal numbers.                                         *)
(***************************************************************************)
Digits == <<"0", "1", "2", "3", "4", "5", "6", "7", "8", "9">>
D09 == {Digits[i] : i \in 1..10}
D19 == D09 \ {"0"}
DigitVal(c) == CHOOSE d \in 0..9 : Digits[d + 1] = c

RECURSIVE NatToStr(_)
NatToStr(n) == IF n < 10 THEN <<Digits[n + 1]>>
               ELSE NatToStr(n \div 10) \o <<Digits[(n % 10) + 1]>>

\* '{0}'.format(v) for an int or None
Format(v) == IF v = NoneV THEN <<"N", "o", "n", "e">>
             ELSE IF v[2] < 0 THEN <<"-">> \o NatToStr(-v[2])
             ELSE NatToStr(v[2])

\* '%02d' and '%04d'
Pad2(n) == <<Digits[(n \div 10) + 1], Digits[(n % 10) + 1]>>
Pad4(n) == Pad2(n \div 100) \o Pad2(n % 100)

(***************************************************************************)
(* datetime.strptime(dt_string, "%Y-%m-%dT%H:%M:%SZ").  The format is      *)
(* compiled to a regular expression, one group per directive, matched       *)
(* from the start of the string with IGNORECASE; each group is a list of   *)
(* alternatives tried in order, each alternative a list of character       *)
(* classes.                                                                *)
(***************************************************************************)
dir_Y == << <<D09, D09, D09, D09>> >>
dir_m == << <<{"1"}, {"0", "1", "2"}>>, <<{"0"}, D19>>, <<D19>> >>
dir_d == << <<{"3"}, {"0", "1"}>>, <<{"1", "2"}, D09>>, <<{"0"}, D19>>,
            <<D19>>, <<{" "}, D19>> >>
dir_H == << <<{"2"}, {"0", "1", "2", "3"}>>, <<{"0", "1"}, D09>>, <<D09>> >>
dir_M == << <<{"0", "1", "2", "3", "4", "5"}, D09>>, <<D09>> >>
dir_S == << <<{"6"}, {"0", "1"}>>, <<{"0", "1", "2", "3", "4", "5"}, D09>>,
            <<D09>> >>
Lit(cs) == << <<cs>> >>

format_regex == <<dir_Y, Lit({"-"}), dir_m, Lit({"-"}), dir_d, Lit({"T", "t"}),
                  dir_H, Lit({":"}), dir_M, Lit({":"}), dir_S, Lit({"Z", "z"})>>

NoMatch == <<>>

MatchAlt(s, i, alt) ==
    /\ i + Len(alt) - 1 <= Len(s)
    /\ \A j \in 1..Len(alt) : s[i + j - 1] \in alt[j]

\* The positions at which the items k.. of the expression start when matched
\* against s from position i, followed by the position after the match.
RECURSIVE Match(_, _, _)
RECURSIVE TryAlts(_, _, _, _)
Match(s, i, k) == IF k > Len(format_regex) THEN <<i>> ELSE TryAlts(s, i, k, 1)
TryAlts(s, i, k, a) ==
    IF a > Len(format_regex[k]) THEN NoMatch
    ELSE LET alt == format_regex[k][a]
             rest == Match(s, i + Len(alt), k + 1)
         IN  IF MatchAlt(s, i, alt) /\ rest # NoMatch THEN <<i>> \o rest
             ELSE TryAlts(s, i, k, a + 1)

\* int() of a group: surrounding blanks are ignored
RECURSIVE ToInt(_)
ToInt(cs) == IF cs = <<>> THEN 0
             ELSE IF cs[Len(cs)] = " " THEN ToInt(SubSeq(cs, 1, Len(cs) - 1))
             ELSE IF cs[1] = " " THEN ToInt(Tail(cs))
             ELSE 10 * ToInt(SubSeq(cs, 1, Len(cs) - 1)) + DigitVal(cs[Len(cs)])

IsLeap(y) == y % 4 = 0 /\ (y % 100 # 0 \/ y % 400 = 0)
DaysInMonth(y, m) == IF m = 2 THEN (IF IsLeap(y) THEN 29 ELSE 28)
                     ELSE IF m \in {4, 6, 9, 11} THEN 30 ELSE 31

ValueError(reason) == [ok |-> FALSE, val |-> reason]

\* the datetime constructor's range checks
datetime(y, mo, d, h, mi, sec) ==
    IF y < 1 THEN ValueError(<<"year ">> \o NatToStr(y) \o <<" is out of range">>)
    ELSE IF d > DaysInMonth(y, mo) THEN ValueError(<<"day is out of range for month">>)
    ELSE IF sec > 59 THEN ValueError(<<"second must be in 0..59">>)
    ELSE [ok |-> TRUE,
          val |-> [year |-> y, month |-> mo, day |-> d,
                  hour |-> h, minute |-> mi, second |-> sec]]

strptime(s) ==
    LET pos == Match(s, 1, 1)
        group(k) == ToInt(SubSeq(s, pos[k], pos[k + 1] - 1))
    IN  IF pos = NoMatch
        THEN ValueError(<<"time data '">> \o s
                        \o <<"' does not match format '%Y-%m-%dT%H:%M:%SZ'">>)
        ELSE IF pos[Len(pos)] # Len(s) + 1
        THEN ValueError(<<"unconverted data remains: ">>
                        \o SubSeq(s, pos[Len(pos)], Len(s)))
        ELSE datetime(group(1), group(3), group(5), group(7), group(9), group(11))

(***************************************************************************)
(* datetime.strftime(dt, "%Y%m%dT%H%M%SZ").  Every field is zero padded    *)
(* except that the year is rendered by the platform: Python 2 refuses a    *)
(* year before 1900 with a ValueError, Python 3 on glibc renders a year    *)
(* before 1000 without padding.  The result is the set of outcomes.        *)
(***************************************************************************)
strftime(dt) ==
    LET rest == Pad2(dt.month) \o Pad2(dt.day) \o <<"T">> \o Pad2(dt.hour)
                \o Pad2(dt.minute) \o Pad2(dt.second) \o <<"Z">>
        py3 == [ok |-> TRUE,
                val |-> (IF dt.year < 1000 THEN NatToStr(dt.year)
                          ELSE Pad4(dt.year)) \o rest]
        py2 == IF dt.year < 1900
               THEN ValueError(<<"year=">> \o NatToStr(dt.year) \o
                      <<" is before 1900; the datetime strftime() methods require year >= 1900">>)
               ELSE [ok |-> TRUE, val |-> Pad4(dt.year) \o rest]
    IN  {py2, py3}

\* the module.fail_json call of parse_datetime_string
parse_failure(dt_string, err) ==
    [msg |-> <<"Failed to update schedule, unable to parse datetime ">>
             \o dt_string \o <<": ">> \o err,
     changed |-> FALSE]

NoFailure == [msg |-> <<>>, changed |-> FALSE]
Returned(v) == [ok |-> TRUE, value |-> v, fail |-> NoFailure]
Failed(f) == [ok |-> FALSE, value |-> <<>>, fail |-> f]

\* The outcomes of parse_datetime_string(module, dt_string): a returned
\* string, or the arguments of the fail_json call.
parse_datetime_string(dt_string) ==
    LET parsed == strptime(dt_string)
    IN  IF ~parsed.ok
        THEN {Failed(parse_failure(dt_string, parsed.val))}
        ELSE {IF r.ok THEN Returned(r.val)
              ELSE Failed(parse_failure(dt_string, r.val))
              : r \in strftime(parsed.val)}

(***************************************************************************)
(* build_rrule                                                             *)
(***************************************************************************)
unit_map(freq_unit) ==
    CASE freq_unit = "minute" -> <<"M", "I", "N", "U", "T", "E", "L", "Y">>
      [] freq_unit = "day" -> <<"D", "A", "I", "L", "Y">>
      [] freq_unit = "hour" -> <<"H", "O", "U", "R", "L", "Y">>
      [] freq_unit = "runonce" -> <<"D", "A", "I", "L", "Y">>

\* build_rrule with a separator before the COUNT clause
build_rrule_separated(startdate, freq, freq_unit) ==
    LET r == <<"D", "T", "S", "T", "A", "R", "T", ":">> \o startdate
             \o <<" ", "R", "R", "U", "L", "E", ":", "F", "R", "E", "Q", "=">>
             \o unit_map(freq_unit)
             \o <<";", "I", "N", "T", "E", "R", "V", "A", "L", "=">>
             \o Format(freq)
    IN  IF freq_unit = "runonce"
        THEN r \o <<";", "C", "O", "U", "N", "T", "=", "1">>
        ELSE r

build_rrule(startdate, freq, freq_unit) ==
    LET r == <<"D", "T", "S", "T", "A", "R", "T", ":">> \o startdate
             \o <<" ", "R", "R", "U", "L", "E", ":", "F", "R", "E", "Q", "=">>
             \o unit_map(freq_unit)
             \o <<";", "I", "N", "T", "E", "R", "V", "A", "L", "=">>
             \o Format(freq)
    IN  IF freq_unit = "runonce"
        THEN r \o <<"C", "O", "U", "N", "T", "=", "1">>
        ELSE r

(***************************************************************************)
(* update_fields and update_resources                                      *)
(***************************************************************************)
\* yaml.dump of a dict of strings, given as a sequence of <<key, value>>
RECURSIVE yaml_pairs(_)
yaml_pairs(pairs) ==
    IF pairs = <<>> THEN <<>>
    ELSE pairs[1][1] \o <<": ">> \o pairs[1][2] \o <<"\n">> \o yaml_pairs(Tail(pairs))
yaml_dump(d) == IF d[2] = <<>> THEN <<"{}", "\n">> ELSE yaml_pairs(d[2])

Get(d, k) == IF k \in DOMAIN d THEN d[k] ELSE NoneV

update_fields(p) ==
    LET extra_data == Get(p, "extra_data")
    IN  IF extra_data # NoneV
        THEN Put(p, "extra_data", PyStr(yaml_dump(extra_data)))
        ELSE p

identity_map == {"job_template", "project", "inventory_source"}

\* the keyword arguments of the lookup of resource k
lookup_kwargs(p, k) == [x \in {"name"} |-> p[k]]

\* update_resource without the deletion of the empty parameters
update_resource_keep_empty(p, k, found) ==
    IF Truthy(p[k]) THEN Put(p, k, found["id"]) ELSE p

\* one iteration of the loop of update_resources whose lookup, if any,
\* returned the record found
update_resource(p, k, found) ==
    IF Truthy(p[k]) THEN Put(p, k, found["id"])
    ELSE IF k \in DOMAIN p THEN Pop(p, k)
    ELSE p

\* failure reporting a change
failure_changed(exc) ==
    [msg |-> <<"Failed to update schedule: ">> \o exc.msg, changed |-> TRUE]

\* the fail_json arguments of the handlers of update_resources and main
failure(exc) ==
    [msg |-> <<"Failed to update schedule: ">> \o exc.msg, changed |-> FALSE]

\* a handler that does not catch NotFound
lookup_except_uncaught(t) == "raised_lookup"

\* where control goes when the lookup raises an exception of type t: the
\* handler catches NotFound only, and fail_json does not return
lookup_except(t) == IF t = "NotFound" THEN "fail_lookup" ELSE "raised_lookup"

(***************************************************************************)
(* The remote service, as seen through tower_cli: a call returns a record  *)
(* or raises one of the client's exceptions.                               *)
(***************************************************************************)
ExcTypes == {"NotFound", "ConnectionError", "BadRequest", "ServerError"}
Exc(type) ==
    [type |-> type,
     msg |-> CASE type = "NotFound" -> <<"The requested object could not be found.">>
               [] type = "ConnectionError" -> <<"There was a network error of some kind.">>
               [] type = "BadRequest" -> <<"The Tower server claims it was sent a bad request.">>
               [] type = "ServerError" -> <<"The Tower server sent back a server error.">>]
Ids == 1..MaxId
NoExc == [type |-> "none", msg |-> <<>>]

\* the log of the calls made to the service: the request, and what the
\* call returned (a dict) or raised
Returns(d) == <<"return", d>>
Raises(e) == <<"raise", e>>
GetCall(k, kwargs, reply) ==
    [op |-> "get", resource |-> k, kwargs |-> kwargs, reply |-> reply]
ScheduleCall(op, kwargs, reply) ==
    [op |-> op, resource |-> "schedule", kwargs |-> kwargs, reply |-> reply]

\* what the runtime emits: the spec's terminal result or failure record
NoOutput == [kind |-> "none", body |-> <<>>]
exit_json(kwargs) == [kind |-> "exit_json", body |-> kwargs]
fail_json(kwargs) == [kind |-> "fail_json", body |-> kwargs]
check_mode_exit == [kind |-> "check_mode", body |-> <<>>]

(***************************************************************************)
(* Inputs.                                                                 *)
(***************************************************************************)
Y2018 == <<"2", "0", "1", "8">>
Y2020 == <<"2", "0", "2", "0">>
Y0999 == <<"0", "9", "9", "9">>
Y0000 == <<"0", "0", "0", "0">>
Midnight == <<"0", "0", ":", "0", "0", ":", "0", "0">>

\* '2018-01-01T00:00:00Z', '2018-1-1T0:0:0Z', '2018/01/01T00:00:00Z'
StartWellFormed == Y2018 \o <<"-", "0", "1", "-", "0", "1", "T">> \o Midnight \o <<"Z">>
StartUnpadded == Y2018 \o <<"-", "1", "-", "1", "T", "0", ":", "0", ":", "0", "Z">>
StartSlashes == Y2018 \o <<"/", "0", "1", "/", "0", "1", "T">> \o Midnight \o <<"Z">>
StartInputs == {StartWellFormed, StartUnpadded, StartSlashes}

TargetInputs == {NoneV, PyStr(<<>>), PyStr(<<"git project">>)}
FrequencyInputs == {NoneV} \cup {PyInt(n) : n \in -1..MaxFrequency}
UnitInputs == {"runonce", "minute", "hour", "day"}
StateInputs == {"present", "absent", "disabled"}
ExtraDataInputs == {NoneV, PyDict(<<>>), PyDict(<< <<<<"k">>, <<"v">>>> >>)}

\* module.params after argument parsing.  The three target parameters are
\* drawn independently: nothing below relies on their exclusion.
ParamInputs ==
    {[name |-> PyStr(<<"nightly">>), state |-> PyStr(<<st>>), description |-> PyStr(<<>>),
      job_template |-> jt, job_type |-> NoneV, project |-> pr,
      inventory_source |-> inv, start |-> PyStr(s), frequency |-> f,
      frequency_unit |-> PyStr(<<u>>), extra_data |-> e, limit |-> PyStr(<<>>)]
     : st \in StateInputs, jt \in TargetInputs, pr \in TargetInputs,
       inv \in TargetInputs, s \in StartInputs, f \in FrequencyInputs,
       u \in UnitInputs, e \in ExtraDataInputs}

NoCall == [fn |-> "none", args |-> <<>>]

(***************************************************************************)
(* main                                                                    *)
(***************************************************************************)
Init ==
    /\ module_params \in ParamInputs
    /\ check_mode \in BOOLEAN
    /\ pc = "main"
    /\ state = Unset /\ frequency = Unset /\ frequency_unit = Unset
    /\ start = Unset /\ json_output = Unset /\ params = Unset
    /\ remaining = {} /\ dtstart = Unset /\ excinfo = NoExc
    /\ calls = <<>> /\ result = Unset /\ output = NoOutput
    /\ call = NoCall /\ ret = <<>>

\* the parameters main pops before it reshapes the rest
popped == {"state", "frequency", "frequency_unit", "start"}
after_pops(p) == [x \in DOMAIN p \ popped |-> p[x]]

\* main up to the first iteration of update_resources
Setup ==
    /\ pc = "main"
    /\ state' = module_params["state"][2][1]
    /\ frequency' = module_params["frequency"]
    /\ frequency_unit' = module_params["frequency_unit"][2][1]
    /\ start' = module_params["start"]
    /\ module_params' = after_pops(module_params)
    /\ json_output' = [x \in {"schedule", "state"} |->
                         IF x = "schedule" THEN module_params["name"]
                         ELSE module_params["state"]]
    /\ IF check_mode
       THEN /\ output' = check_mode_exit
            /\ pc' = "check_mode_exit"
            /\ UNCHANGED <<params, remaining>>
       ELSE /\ params' = module_params'
            /\ remaining' = identity_map
            /\ pc' = "update_resources"
            /\ UNCHANGED output
    /\ UNCHANGED <<check_mode, dtstart, excinfo, calls, result, call, ret>>

\* one iteration of the loop of update_resources, for any key the dict
\* iteration may yield next
Lookup(k) ==
    /\ pc = "update_resources"
    /\ k \in remaining
    /\ remaining' = remaining \ {k}
    /\ IF Truthy(params[k])
       THEN \/ \E id \in Ids :
                 LET found == [x \in {"id"} |-> PyInt(id)]
                 IN  /\ calls' = Append(calls, GetCall(k, lookup_kwargs(params, k),
                                                       Returns(found)))
                     /\ params' = update_resource(params, k, found)
                     /\ UNCHANGED <<pc, excinfo, output>>
            \/ \E t \in ExcTypes :
                 /\ calls' = Append(calls, GetCall(k, lookup_kwargs(params, k),
                                                   Raises(Exc(t))))
                 /\ excinfo' = Exc(t)
                 /\ pc' = lookup_except(t)
                 /\ IF t = "NotFound"
                    THEN output' = fail_json(failure(excinfo'))
                    ELSE UNCHANGED output
                 /\ UNCHANGED params
       ELSE /\ params' = update_resource(params, k, NoneV)
            /\ UNCHANGED <<pc, excinfo, output, calls>>
    /\ UNCHANGED <<module_params, check_mode, state, frequency, frequency_unit,
                   start, json_output, dtstart, result, call, ret>>

\* prepare with enabled set for state 'present' only
prepare_enabled_when_present(p, st) ==
    Put(Put(update_fields(p), "create_on_missing", PyBool(TRUE)),
        "enabled", PyBool(st = "present"))

\* the parameters of the outgoing call before the rrule is added
prepare(p, st) ==
    Put(Put(update_fields(p), "create_on_missing", PyBool(TRUE)),
        "enabled", PyBool(~(st = "disabled")))

Prepare ==
    /\ pc = "update_resources"
    /\ remaining = {}
    /\ params' = prepare(params, state)
    /\ pc' = "parse_datetime_string"
    /\ UNCHANGED <<module_params, check_mode, state, frequency, frequency_unit,
                   start, json_output, remaining, dtstart, excinfo, calls,
                   result, output, call, ret>>

Parse ==
    /\ pc = "parse_datetime_string"
    /\ \E o \in parse_datetime_string(start[2]) :
         IF o.ok
         THEN /\ dtstart' = o.value
              /\ pc' = "dispatch"
              /\ UNCHANGED output
         ELSE /\ output' = fail_json(o.fail)
              /\ pc' = "fail_parse"
              /\ UNCHANGED dtstart
    /\ UNCHANGED <<module_params, check_mode, state, frequency, frequency_unit,
                   start, json_output, params, remaining, excinfo, calls,
                   result, call, ret>>

\* dispatch that never deletes
operation_always_modify(st) == "modify"

\* the remote operation main dispatches to
operation(st) == IF st = "absent" THEN "delete" ELSE "modify"
caught == {"ConnectionError", "BadRequest", "NotFound"}

\* the two updates of json_output from the result of the remote operation
with_id(json, res) == Put(json, "id", res["id"])
with_changed_true(json, res) == Put(json, "changed", PyBool(TRUE))
with_changed(json, res) == Put(json, "changed", res["changed"])

Dispatch ==
    /\ pc = "dispatch"
    /\ params' = Put(params, "rrule",
                     PyStr(build_rrule(dtstart, frequency, frequency_unit)))
    /\ \/ \E changed \in BOOLEAN :
            /\ operation(state) = "delete"
            /\ result' = [x \in {"changed"} |-> PyBool(changed)]
            /\ calls' = Append(calls, ScheduleCall("delete", params', Returns(result')))
            /\ pc' = "exit_json"
            /\ UNCHANGED <<json_output, excinfo, output>>
       \/ \E changed \in BOOLEAN, id \in Ids :
            /\ operation(state) = "modify"
            /\ result' = [x \in {"changed", "id"} |->
                            IF x = "id" THEN PyInt(id) ELSE PyBool(changed)]
            /\ calls' = Append(calls, ScheduleCall("modify", params', Returns(result')))
            /\ json_output' = with_id(json_output, result')
            /\ pc' = "exit_json"
            /\ UNCHANGED <<excinfo, output>>
       \/ \E t \in ExcTypes :
            /\ calls' = Append(calls, ScheduleCall(operation(state), params',
                                                   Raises(Exc(t))))
            /\ excinfo' = Exc(t)
            /\ IF t \in caught
               THEN /\ output' = fail_json(failure(excinfo'))
                    /\ pc' = "fail_remote"
               ELSE /\ pc' = "raised_remote"
                    /\ UNCHANGED output
            /\ UNCHANGED <<json_output, result>>
    /\ UNCHANGED <<module_params, check_mode, state, frequency, frequency_unit,
                   start, remaining, dtstart, call, ret>>

Exit ==
    /\ pc = "exit_json"
    /\ json_output' = with_changed(json_output, result)
    /\ output' = exit_json(json_output')
    /\ pc' = "done"
    /\ UNCHANGED <<module_params, check_mode, state, frequency, frequency_unit,
                   start, params, remaining, dtstart, excinfo, calls, result,
                   call, ret>>

Next ==
    \/ Setup
    \/ \E k \in identity_map : Lookup(k)
    \/ Prepare
    \/ Parse
    \/ Dispatch
    \/ Exit

Spec == Init /\ [][Next]_vars

(***************************************************************************)
(* The two string routines on their own: a call of one routine with        *)
(* arguments drawn from the sets below, outside any run of main.           *)
(***************************************************************************)
YearTexts == {Y2018, Y2020, Y0999, Y0000, <<"2", "0", "1">>}
MonthTexts == {<<"0", "1">>, <<"1">>, <<"0", "2">>, <<"1", "2">>, <<"1", "3">>,
               <<"0", "0">>, <<"a", "b">>}
DayTexts == {<<"0", "1">>, <<"1">>, <<" ", "1">>, <<"2", "9">>, <<"3", "1">>,
             <<"3", "2">>}
DateSeparators == {"-", "/"}
TimeMarkers == {<<"T">>, <<"t">>, <<" ">>}
TimeTexts == {Midnight,
              <<"0", ":", "0", ":", "0">>,
              <<"2", "3", ":", "5", "9", ":", "5", "9">>,
              <<"2", "4", ":", "0", "0", ":", "0", "0">>,
              <<"0", "0", ":", "6", "0", ":", "0", "0">>,
              <<"0", "0", ":", "0", "0", ":", "6", "0">>}
ZoneTexts == {<<"Z">>, <<"z">>, <<>>, <<"Z", "Z">>}

DtStrings ==
    {y \o <<sep>> \o m \o <<sep>> \o d \o tm \o hms \o z
     : y \in YearTexts, m \in MonthTexts, d \in DayTexts, sep \in DateSeparators,
       tm \in TimeMarkers, hms \in TimeTexts, z \in ZoneTexts}

Anchors == {<<"2", "0", "1", "8", "0", "1", "0", "1", "T", "0", "0", "0", "0", "0", "0", "Z">>,
            <<"2", "0", "2", "0", "0", "2", "2", "9", "T", "2", "3", "5", "9", "5", "9", "Z">>,
            <<>>}
CountInputs == {NoneV} \cup {PyInt(n) : n \in -MaxCount..MaxCount}

Idle ==
    /\ module_params = Unset /\ check_mode = FALSE /\ pc = "idle"
    /\ state = Unset /\ frequency = Unset /\ frequency_unit = Unset
    /\ start = Unset /\ json_output = Unset /\ params = Unset
    /\ remaining = {} /\ dtstart = Unset /\ excinfo = NoExc
    /\ calls = <<>> /\ result = Unset /\ output = NoOutput

InitParse ==
    /\ Idle
    /\ call \in {[fn |-> "parse_datetime_string", args |-> <<s>>] : s \in DtStrings}
    /\ ret = <<>>

CallParse ==
    /\ call.fn = "parse_datetime_string"
    /\ ret = <<>>
    /\ \E o \in parse_datetime_string(call.args[1]) : ret' = <<o>>
    /\ UNCHANGED <<main_vars, call>>

SpecParse == InitParse /\ [][CallParse]_vars

InitRrule ==
    /\ Idle
    /\ call \in {[fn |-> "build_rrule", args |-> <<a, n, u>>]
                 : a \in Anchors, n \in CountInputs, u \in UnitInputs}
    /\ ret = <<>>

CallRrule ==
    /\ call.fn = "build_rrule"
    /\ ret = <<>>
    /\ ret' = <<PyStr(build_rrule(call.args[1], call.args[2], call.args[3]))>>
    /\ UNCHANGED <<main_vars, call>>

SpecRrule == InitRrule /\ [][CallRrule]_vars

(***************************************************************************)
(* Properties.                                                             *)
(***************************************************************************)
MutatingCalls == {i \in 1..Len(calls) : calls[i].op \in {"modify", "delete"}}
Lookups == {i \in 1..Len(calls) : calls[i].op = "get"}
AfterDispatch == {"exit_json", "done", "fail_remote", "raised_remote"}
FailurePrefix == <<"Failed to update schedule: ">>

\* C1: a run of main that reaches the dispatch makes exactly one mutating
\* remote call, delete when state is 'absent' and otherwise modify with
\* create_on_missing true; before the dispatch it has made none, and in no
\* state, a remote error included, has it made two.
C1_SingleDispatch ==
    /\ Cardinality(MutatingCalls) <= 1
    /\ pc \notin AfterDispatch => MutatingCalls = {}
    /\ pc \in AfterDispatch =>
         /\ Cardinality(MutatingCalls) = 1
         /\ \A i \in MutatingCalls :
              /\ state = "absent" => calls[i].op = "delete"
              /\ state \in {"present", "disabled"} =>
                   /\ calls[i].op = "modify"
                   /\ calls[i].kwargs["create_on_missing"] = PyBool(TRUE)

C1_Witness ==
    /\ pc = "fail_remote"
    /\ state = "absent"
    /\ Cardinality(MutatingCalls) = 1

\* C2: when the start string does not parse, the run fails without having
\* made any call to the remote service.
C2_NoCallBeforeParseError == pc = "fail_parse" => calls = <<>>

\* C3: a lookup that raises NotFound ends the run in a failure that carries
\* the lookup's message, it is the last call of the run, and the run makes
\* no modify and no delete call, whatever the state.
C3_LookupNotFoundFatal ==
    \A j \in Lookups :
      (calls[j].reply[1] = "raise" /\ calls[j].reply[2].type = "NotFound") =>
        /\ pc = "fail_lookup"
        /\ j = Len(calls)
        /\ MutatingCalls = {}
        /\ output.kind = "fail_json"
        /\ output.body.msg = FailurePrefix \o calls[j].reply[2].msg

C3_Witness ==
    /\ pc = "fail_lookup"
    /\ state = "absent"
    /\ calls # <<>>
    /\ calls[Len(calls)].resource = "inventory_source"
    /\ calls[Len(calls)].reply[1] = "raise"

\* C4: a failure is reported with changed = false, ends the run, and is
\* never followed by another report; the failure of a remote call carries
\* the message of the exception raised by the client.
C4_FailureState ==
    /\ pc \in {"fail_parse", "fail_lookup", "fail_remote"} <=> output.kind = "fail_json"
    /\ output.kind = "fail_json" =>
         /\ output.body.changed = FALSE
         /\ pc \in {"fail_lookup", "fail_remote"} =>
              /\ calls[Len(calls)].reply = Raises(excinfo)
              /\ output.body.msg = FailurePrefix \o excinfo.msg
C4_FailureTerminal ==
    /\ []C4_FailureState
    /\ [][output.kind = "fail_json" =>
            (output'.kind = "fail_json" /\ output'.body = output.body)]_vars

C4_Witness ==
    /\ pc = "fail_remote"
    /\ excinfo.type = "BadRequest"
    /\ output.kind = "fail_json"

\* C5: the enabled flag of the outgoing call is false exactly when state is
\* 'disabled', whatever the other parameters are.
C5_EnabledFromState ==
    \A i \in MutatingCalls :
      /\ calls[i].kwargs["enabled"] = PyBool(FALSE) <=> state = "disabled"
      /\ calls[i].kwargs["enabled"] = PyBool(TRUE) <=> state \in {"present", "absent"}

C5_Witness ==
    /\ MutatingCalls # {}
    /\ state = "disabled"
    /\ frequency = NoneV
    /\ Truthy(module_params["job_template"])

\* C6: the success record holds the schedule name, the requested state and
\* the changed flag the remote operation returned; it has an id, the one
\* modify returned, exactly when state is not 'absent'.
C6_SuccessRecord ==
    output.kind = "exit_json" =>
      LET reply == calls[Len(calls)].reply[2]
      IN  /\ output.body["schedule"] = module_params["name"]
          /\ output.body["state"] = PyStr(<<state>>)
          /\ output.body["changed"] = reply["changed"]
          /\ "id" \in DOMAIN output.body <=> state # "absent"
          /\ state # "absent" => output.body["id"] = reply["id"]
          /\ DOMAIN output.body \subseteq {"schedule", "state", "changed", "id"}

C6_Witness ==
    /\ output.kind = "exit_json"
    /\ state = "absent"
    /\ output.body["changed"] = PyBool(FALSE)

\* C7: for an integer count, build_rrule returns 'DTSTART:' + anchor +
\* ' RRULE:FREQ=' + F + ';INTERVAL=' + the decimal count, followed by
\* 'COUNT=1' with no separator exactly when the unit is runonce, where F is
\* MINUTELY, HOURLY or DAILY for minute, hour or day, and DAILY for runonce.
FreqName(u) == IF u = "minute" THEN <<"M", "I", "N", "U", "T", "E", "L", "Y">>
               ELSE IF u = "hour" THEN <<"H", "O", "U", "R", "L", "Y">>
               ELSE <<"D", "A", "I", "L", "Y">>
\* cs is the decimal numeral of n, without sign for n >= 0 and without
\* leading zeros
IsDecimalOf(cs, n) ==
    LET ds == IF n < 0 THEN Tail(cs) ELSE cs
        abs == IF n < 0 THEN -n ELSE n
    IN  /\ cs # <<>>
        /\ n < 0 => cs[1] = "-"
        /\ ds # <<>>
        /\ \A i \in 1..Len(ds) : ds[i] \in D09
        /\ Len(ds) > 1 => ds[1] # "0"
        /\ ToInt(ds) = abs
C7_RruleFormat ==
    (call.fn = "build_rrule" /\ ret # <<>> /\ call.args[2][1] = "int") =>
      LET r == ret[1][2]
          a == call.args[1]
          n == call.args[2][2]
          u == call.args[3]
          F == FreqName(u)
          p1 == 8
          p2 == p1 + Len(a)
          p3 == p2 + 12
          p4 == p3 + Len(F)
          p5 == p4 + 10
          p6 == Len(r) - (IF u = "runonce" THEN 7 ELSE 0)
      IN  /\ p6 > p5
          /\ SubSeq(r, 1, p1) = <<"D", "T", "S", "T", "A", "R", "T", ":">>
          /\ SubSeq(r, p1 + 1, p2) = a
          /\ SubSeq(r, p2 + 1, p3)
               = <<" ", "R", "R", "U", "L", "E", ":", "F", "R", "E", "Q", "=">>
          /\ SubSeq(r, p3 + 1, p4) = F
          /\ SubSeq(r, p4 + 1, p5) = <<";", "I", "N", "T", "E", "R", "V", "A", "L", "=">>
          /\ IsDecimalOf(SubSeq(r, p5 + 1, p6), n)
          /\ u = "runonce" =>
               SubSeq(r, p6 + 1, Len(r)) = <<"C", "O", "U", "N", "T", "=", "1">>

C7_Witness ==
    /\ call.fn = "build_rrule"
    /\ ret # <<>>
    /\ call.args[3] = "runonce"
    /\ call.args[1] # <<>>
    /\ call.args[2][1] = "int"
    /\ call.args[2][2] > 9

\* C8: parse_datetime_string returns the compact form of exactly the
\* strings YYYY-MM-DDTHH:MM:SSZ that denote a valid date and time, the
\* digits of the input in the same order, and fails on every other string
\* with a message that holds the input and the reason.
IsStrictForm(s) ==
    /\ Len(s) = 20
    /\ \A i \in {1, 2, 3, 4, 6, 7, 9, 10, 12, 13, 15, 16, 18, 19} : s[i] \in D09
    /\ s[5] = "-" /\ s[8] = "-" /\ s[11] = "T"
    /\ s[14] = ":" /\ s[17] = ":" /\ s[20] = "Z"
    /\ LET y == ToInt(SubSeq(s, 1, 4))
           mo == ToInt(SubSeq(s, 6, 7))
       IN  /\ y >= 1
           /\ mo \in 1..12
           /\ ToInt(SubSeq(s, 9, 10)) \in 1..DaysInMonth(y, mo)
           /\ ToInt(SubSeq(s, 12, 13)) \in 0..23
           /\ ToInt(SubSeq(s, 15, 16)) \in 0..59
           /\ ToInt(SubSeq(s, 18, 19)) \in 0..59
Compact(s) == SubSeq(s, 1, 4) \o SubSeq(s, 6, 7) \o SubSeq(s, 9, 11)
              \o SubSeq(s, 12, 13) \o SubSeq(s, 15, 16) \o SubSeq(s, 18, 20)
C8_StrictParse ==
    (call.fn = "parse_datetime_string" /\ ret # <<>>) =>
      LET s == call.args[1]
          o == ret[1]
          head == <<"Failed to update schedule, unable to parse datetime ">>
                  \o s \o <<": ">>
      IN  IF IsStrictForm(s)
          THEN o.ok /\ o.value = Compact(s)
          ELSE /\ ~o.ok
               /\ o.fail.changed = FALSE
               /\ Len(o.fail.msg) > Len(head)
               /\ SubSeq(o.fail.msg, 1, Len(head)) = head

\* C9: the interval count handed to build_rrule, and so the INTERVAL value
\* of the rrule of every outgoing call, is a positive integer.
C9_PositiveInterval ==
    \A i \in MutatingCalls : frequency[1] = "int" /\ frequency[2] > 0

\* C10: in the outgoing call each target given a non-empty name holds the
\* identifier the lookup returned for that name, each target that is unset
\* or empty is missing, every other parameter but extra_data is the
\* caller's, and the reshaping leaves the caller's parameters as they were.
C10_Targets ==
    \A i \in MutatingCalls :
      LET kw == calls[i].kwargs
      IN  /\ \A k \in identity_map :
               IF Truthy(module_params[k])
               THEN /\ k \in DOMAIN kw
                    /\ kw[k][1] = "int"
                    /\ \E j \in Lookups :
                         /\ j < i
                         /\ calls[j].resource = k
                         /\ calls[j].kwargs["name"] = module_params[k]
                         /\ calls[j].reply[1] = "return"
                         /\ kw[k] = calls[j].reply[2]["id"]
               ELSE k \notin DOMAIN kw
          /\ \A k \in DOMAIN module_params \ (identity_map \cup {"extra_data"}) :
               k \in DOMAIN kw /\ kw[k] = module_params[k]
C10_ResolvedTargets ==
    /\ []C10_Targets
    /\ [][(pc \in {"update_resources", "parse_datetime_string", "dispatch"})
            => module_params' = module_params]_vars

C10_Witness ==
    /\ MutatingCalls # {}
    /\ Truthy(module_params["project"])
    /\ Truthy(module_params["job_template"])
    /\ module_params["inventory_source"] = PyStr(<<>>)

====
